---- MODULE Spec2Model ----
(***************************************************************************)
(* A model of src/src/wasm/socket.rs: the WebSocket connection handle of   *)
(* async-wsocket's wasm back end.  The transport (web_sys::WebSocket), the *)
(* observer hub (crate::wasm::pharos), crate::wasm::notify and WsStream    *)
(* are collaborators of socket.rs; the model gives them the behaviour the  *)
(* specification states for them.                                          *)
(*                                                                         *)
(* Scheduling: single-threaded and cooperative.  Every action below is one *)
(* uninterrupted run of a task or host callback, from one suspension point *)
(* to the next.  A task suspended at an await resumes in a later step.     *)
(* The host delivers a transport notification as a task of its event loop, *)
(* and runs the tasks that a notification made runnable (the spawned       *)
(* notify task, the tasks it wakes) before it delivers the next one.       *)
(***************************************************************************)
EXTENDS Integers, Sequences, FiniteSets, TLC

\* ---------------------------------------------------------------- bounds
\* How many error notifications the transport fires at most.
MaxErrors == 1
\* How many external observers register on the handle at most.
MaxObservers == 1

\* The close calls made on the handle: two, so that two can be in flight.
Calls == {1, 2}
Observers == 1..MaxObservers

\* Inputs of connect: the URL, and how the transport answers its creation:
\* created, or a DomException with one of these codes.
Urls == {"wss://host/", "ftp://host/"}
SYNTAX_ERR == 12
ExcCodes == {0, SYNTAX_ERR, 18}
\* Close codes passed to close_code / close_reason (u16).
Codes == {1000, 2000}
\* Byte lengths of the reason passed to close_reason.
ReasonLens == {123, 124}
\* What the transport's close notification can carry (JsCloseEvt).
JsCloseEvts ==
    { [code |-> 1000, reason |-> "bye", wasClean |-> TRUE],
      [code |-> 1006, reason |-> "", wasClean |-> FALSE] }

\* ----------------------------------------------------------- event model
NoInfo == [code |-> 0, reason |-> "", was_clean |-> FALSE]
Open == [type |-> "Open", info |-> NoInfo]
Error == [type |-> "Error", info |-> NoInfo]
Closing == [type |-> "Closing", info |-> NoInfo]
Closed(ce) == [type |-> "Closed", info |-> ce]

\* CloseEvent built from the native close notification (on_close).
CloseEventOf(js) == [code |-> js.code, reason |-> js.reason, was_clean |-> js.wasClean]

is_open(evt) == evt.type = "Open"
is_closed(evt) == evt.type = "Closed"

\* The filters used on the hub.
OPEN_CLOSE_OnlyClosed(evt) == is_closed(evt)
OPEN_CLOSE_Wide(evt) == TRUE
OPEN_CLOSE(evt) == is_open(evt) \/ is_closed(evt)

Filters == {"OpenClose", "Closed", "All"}
Accepts(filter, evt) ==
    CASE filter = "OpenClose" -> OPEN_CLOSE(evt)
      [] filter = "Closed" -> is_closed(evt)
      [] filter = "All" -> TRUE
      [] OTHER -> FALSE

\* WsState from the transport's raw ready state.
WsStateOf(raw) ==
    CASE raw = 0 -> "Connecting"
      [] raw = 1 -> "Open"
      [] raw = 2 -> "Closing"
      [] raw = 3 -> "Closed"
      [] OTHER -> "Invalid"

\* ------------------------------------------------------------------ state
VARIABLES
    rawState,   \* the transport's raw ready state (0..3)
    onopen,     \* the transport's three callback slots: registered or not
    onclose,
    onerror,
    closeLog,   \* every invocation of the transport's close operation
    tlog,       \* every notification the transport fired (heard or not)
    reported,   \* the CloseEvent of the transport's close notification
    pending,    \* hub: notify tasks spawned and not yet broadcast (FIFO)
    nlog,       \* hub: every event handed to notify, in order
    blog,       \* hub: every event broadcast, in order
    evts,       \* connect's subscription
    callEvts,   \* each close call's subscription
    obsEvts,    \* each external observer's subscription
    received,   \* what each external observer has taken from its stream
    obsLate,    \* whether the observer registered after Closed was broadcast
    cpc,        \* connect's position
    cres,       \* connect's result
    guard,      \* the cancellation guard: none, armed, forgotten, dropped
    handle,     \* the WebSocket handle: none, alive, dropped
    stream,     \* the WsStream: none, alive, dropped
    call        \* each close call: position, arguments, result

transportVars == <<rawState, onopen, onclose, onerror, closeLog, tlog, reported>>
hubVars == <<pending, nlog, blog, evts, callEvts, obsEvts, received, obsLate>>
taskVars == <<cpc, cres, guard, handle, stream, call>>
vars == <<transportVars, hubVars, taskVars>>

NoSub == [active |-> FALSE, filter |-> "None", queue |-> <<>>]
Sub(filter) == [active |-> TRUE, filter |-> filter, queue |-> <<>>]

NoJs == [code |-> 0, reason |-> "", wasClean |-> FALSE]

\* A result of connect or of a close call.  state is the transport's ready
\* state at the moment the call returned.
NoResult ==
    [kind |-> "Pending", event |-> NoInfo, supplied |-> 0, url |-> "", state |-> "None"]
Result(kind, event, supplied, url, state) ==
    [kind |-> kind, event |-> event, supplied |-> supplied, url |-> url, state |-> state]

\* A close call: its position, its arguments (rlen: the reason's length in
\* bytes, 0 for close_code), the ready state it read on entry, its result.
NoCall == [pc |-> "idle", op |-> "none", code |-> 0, rlen |-> 0, at |-> "None",
           res |-> NoResult]

Created == cpc \notin {"idle", "rejected"}
ready_state == WsStateOf(rawState)

Init ==
    /\ rawState = 0
    /\ onopen = FALSE
    /\ onclose = FALSE
    /\ onerror = FALSE
    /\ closeLog = <<>>
    /\ tlog = <<>>
    /\ reported = NoJs
    /\ pending = <<>>
    /\ nlog = <<>>
    /\ blog = <<>>
    /\ evts = NoSub
    /\ callEvts = [c \in Calls |-> NoSub]
    /\ obsEvts = [o \in Observers |-> NoSub]
    /\ received = [o \in Observers |-> <<>>]
    /\ obsLate = [o \in Observers |-> FALSE]
    /\ cpc = "idle"
    /\ cres = NoResult
    /\ guard = "none"
    /\ handle = "none"
    /\ stream = "none"
    /\ call = [c \in Calls |-> NoCall]
\* ------------------------------------------------------------ transport
\* The transport's close operation (close, close_with_code,
\* close_with_code_and_reason).  It rejects a code that is neither 1000 nor
\* in 3000..4999 and a reason longer than 123 bytes; accepted, it starts the
\* closing handshake unless the transport is already closing or closed.
ValidCloseCode(code) == code = 1000 \/ (code >= 3000 /\ code <= 4999)
CloseAccepted(code, rlen) == ValidCloseCode(code) /\ rlen <= 123

ws_close(by, idx, code, rlen) ==
    LET ok == CloseAccepted(code, rlen) IN
    /\ closeLog' = Append(closeLog, [by |-> by, idx |-> idx, code |-> code, ok |-> ok])
    /\ rawState' = IF ok /\ rawState \in {0, 1} THEN 2 ELSE rawState

\* ------------------------------------------------------------------ hub
\* notify: the event is handed to a spawned task; the caller does not wait.
notify(evt) ==
    /\ pending' = Append(pending, evt)
    /\ nlog' = Append(nlog, evt)

Offer(sub, evt) ==
    IF sub.active /\ Accepts(sub.filter, evt)
    THEN [sub EXCEPT !.queue = Append(@, evt)]
    ELSE sub

\* The spawned notify task runs: the event is offered to every subscriber
\* registered now whose filter accepts it.
hub_broadcast ==
    /\ pending # <<>>
    /\ LET evt == Head(pending) IN
        /\ evts' = Offer(evts, evt)
        /\ callEvts' = [c \in Calls |-> Offer(callEvts[c], evt)]
        /\ obsEvts' = [o \in Observers |-> Offer(obsEvts[o], evt)]
        /\ blog' = Append(blog, evt)
    /\ pending' = Tail(pending)
    /\ UNCHANGED <<nlog, received, obsLate, transportVars, taskVars>>

\* The host's event loop delivers the next transport notification only
\* when no notify task is queued and no suspended task has been woken.
HostIdle ==
    /\ pending = <<>>
    /\ cpc # "observing"
    /\ ~(cpc = "waiting" /\ evts.queue # <<>>)
    /\ \A c \in Calls : ~(call[c].pc = "waiting" /\ callEvts[c].queue # <<>>)

\* -------------------------------------------------- the three callbacks
on_open == notify(Open)
on_error == notify(Error)
on_close_event_Unclean(js) == Closed([CloseEventOf(js) EXCEPT !.was_clean = FALSE])
on_close_event(js) == Closed(CloseEventOf(js))
on_close_Twice(js) ==
    /\ pending' = pending \o <<on_close_event(js), on_close_event(js)>>
    /\ nlog' = nlog \o <<on_close_event(js), on_close_event(js)>>
on_close(js) == notify(on_close_event(js))

\* The transport completes the opening handshake and fires open.
fire_open ==
    /\ Created
    /\ HostIdle
    /\ rawState = 0
    /\ rawState' = 1
    /\ tlog' = Append(tlog, "open")
    /\ IF onopen THEN on_open ELSE UNCHANGED <<pending, nlog>>
    /\ UNCHANGED <<onopen, onclose, onerror, closeLog, reported>>
    /\ UNCHANGED <<blog, evts, callEvts, obsEvts, received, obsLate, taskVars>>

\* The transport fires error (it carries nothing).
fire_error ==
    /\ Created
    /\ HostIdle
    /\ rawState \in {0, 1, 2}
    /\ Cardinality({i \in DOMAIN tlog : tlog[i] = "error"}) < MaxErrors
    /\ tlog' = Append(tlog, "error")
    /\ IF onerror THEN on_error ELSE UNCHANGED <<pending, nlog>>
    /\ UNCHANGED <<rawState, onopen, onclose, onerror, closeLog, reported>>
    /\ UNCHANGED <<blog, evts, callEvts, obsEvts, received, obsLate, taskVars>>

\* The remote end starts the closing handshake: the transport is Closing.
begin_closing ==
    /\ Created
    /\ HostIdle
    /\ rawState = 1
    /\ rawState' = 2
    /\ UNCHANGED <<onopen, onclose, onerror, closeLog, tlog, reported>>
    /\ UNCHANGED <<hubVars, taskVars>>

\* The transport completes closure (or fails to connect) and fires close.
fire_close(js) ==
    /\ Created
    /\ HostIdle
    /\ rawState \in {0, 1, 2}
    /\ rawState' = 3
    /\ tlog' = Append(tlog, "close")
    /\ reported' = js
    /\ IF onclose THEN on_close(js) ELSE UNCHANGED <<pending, nlog>>
    /\ UNCHANGED <<onopen, onclose, onerror, closeLog>>
    /\ UNCHANGED <<blog, evts, callEvts, obsEvts, received, obsLate, taskVars>>

\* ---------------------------------------------------------------- guard
GuardCloses_Never(state) == FALSE
GuardCloses_Always(state) == TRUE
GuardCloses(state) == state = "Open"

Guard_drop_KeepsCallbacks ==
    /\ UNCHANGED <<onopen, onclose, onerror>>
    /\ IF GuardCloses(ready_state)
       THEN ws_close("guard", 0, 1000, 0)
       ELSE UNCHANGED <<rawState, closeLog>>
    /\ guard' = "dropped"

\* Guard::drop: unregister the three callbacks; close the transport if its
\* state is Open.
Guard_drop ==
    /\ onopen' = FALSE
    /\ onclose' = FALSE
    /\ onerror' = FALSE
    /\ IF GuardCloses(ready_state)
       THEN ws_close("guard", 0, 1000, 0)
       ELSE UNCHANGED <<rawState, closeLog>>
    /\ guard' = "dropped"

\* -------------------------------------------------------------- connect
CreationError_Dom(code) == IF code = 0 THEN "Other" ELSE "Dom"
CreationError(code) ==
    IF code = SYNTAX_ERR THEN "InvalidUrl"
    ELSE IF code = 0 THEN "Other" ELSE "Dom"

\* connect up to its first await, pharos.observe(..).await: create the
\* transport, register the callbacks, arm the guard.
connect(url, created, exc) ==
    /\ cpc = "idle"
    /\ IF ~created
       THEN /\ cpc' = "rejected"
            /\ cres' = Result(CreationError(exc), NoInfo, exc, url, "None")
            /\ UNCHANGED <<transportVars, hubVars, guard, handle, stream, call>>
       ELSE /\ rawState' = 0
            /\ onopen' = TRUE
            /\ onclose' = TRUE
            /\ onerror' = TRUE
            /\ guard' = "armed"
            /\ cpc' = "observing"
            /\ UNCHANGED <<closeLog, tlog, reported, cres, handle, stream, call>>
            /\ UNCHANGED hubVars

connect_observed_ForgetsEarly ==
    /\ cpc = "observing"
    /\ evts' = Sub("OpenClose")
    /\ cpc' = "waiting"
    /\ guard' = "forgotten"
    /\ UNCHANGED <<transportVars, cres, handle, stream, call>>
    /\ UNCHANGED <<pending, nlog, blog, callEvts, obsEvts, received, obsLate>>

\* The subscription to Open-or-Closed is registered; connect goes on to its
\* second await, evts.next().await.
connect_observed ==
    /\ cpc = "observing"
    /\ evts' = Sub("OpenClose")
    /\ cpc' = "waiting"
    /\ UNCHANGED <<transportVars, cres, guard, handle, stream, call>>
    /\ UNCHANGED <<pending, nlog, blog, callEvts, obsEvts, received, obsLate>>

ConnectFails_OnAny(evt) == ~is_open(evt)
ConnectFails_Never(evt) == FALSE
ConnectFails(evt) == is_closed(evt)

connect_resume_NoForget ==
    /\ cpc = "waiting"
    /\ evts.queue # <<>>
    /\ LET evt == Head(evts.queue) IN
       IF ConnectFails(evt)
       THEN /\ cpc' = "failed"
            /\ cres' = Result("ConnectionFailed", evt.info, 0, "", WsStateOf(rawState'))
            /\ UNCHANGED <<handle, stream>>
       ELSE /\ cpc' = "ok"
            /\ cres' = Result("Ok", NoInfo, 0, "", ready_state)
            /\ handle' = "alive"
            /\ stream' = "alive"
    /\ Guard_drop
    /\ evts' = NoSub
    /\ UNCHANGED <<tlog, reported, call>>
    /\ UNCHANGED <<pending, nlog, blog, callEvts, obsEvts, received, obsLate>>

\* connect resumes with the first event of its subscription.
connect_resume ==
    /\ cpc = "waiting"
    /\ evts.queue # <<>>
    /\ LET evt == Head(evts.queue) IN
       IF ConnectFails(evt)
       THEN /\ Guard_drop
            /\ cpc' = "failed"
            /\ cres' = Result("ConnectionFailed", evt.info, 0, "", WsStateOf(rawState'))
            /\ UNCHANGED <<handle, stream>>
       ELSE /\ guard' = "forgotten"
            /\ cpc' = "ok"
            /\ cres' = Result("Ok", NoInfo, 0, "", ready_state)
            /\ handle' = "alive"
            /\ stream' = "alive"
            /\ UNCHANGED <<rawState, onopen, onclose, onerror, closeLog>>
    /\ evts' = NoSub
    /\ UNCHANGED <<tlog, reported, call>>
    /\ UNCHANGED <<pending, nlog, blog, callEvts, obsEvts, received, obsLate>>

\* The connect future is dropped while suspended at either await: the
\* guard's drop runs.
connect_cancel ==
    /\ cpc \in {"observing", "waiting"}
    /\ Guard_drop
    /\ cpc' = "cancelled"
    /\ cres' = Result("Cancelled", NoInfo, 0, "", ready_state)
    /\ evts' = NoSub
    /\ UNCHANGED <<tlog, reported, handle, stream, call>>
    /\ UNCHANGED <<pending, nlog, blog, callEvts, obsEvts, received, obsLate>>
\* ------------------------------------------------------ close handshake
ReturnsNotOpen_Never(state) == FALSE
ReturnsNotOpen(state) == state = "Closed"

SkipsRequest_Never(state) == FALSE
SkipsRequest(state) == state = "Closing"

ReasonTooLong_Never(rlen) == FALSE
ReasonTooLong(rlen) == rlen > 123

\* The Closing event is broadcast when the transport accepted the request.
NotifiesClosing_Always(accepted) == TRUE
NotifiesClosing(accepted) == accepted

Started(c, op, code, rlen) ==
    [pc |-> "waiting", op |-> op, code |-> code, rlen |-> rlen, at |-> ready_state,
     res |-> NoResult]
Returned(c, op, code, rlen, kind) ==
    [pc |-> "done", op |-> op, code |-> code, rlen |-> rlen, at |-> ready_state,
     res |-> Result(kind, NoInfo, code, "", ready_state)]

\* A close call may start when the handle is alive; calls are numbered in
\* the order they start.
CanCall(c) ==
    /\ handle = "alive"
    /\ call[c].pc = "idle"
    /\ \A d \in Calls : d < c => call[d].pc # "idle"

observe_shared_closed_Evicts(c) ==
    callEvts' = [d \in Calls |-> IF d = c THEN Sub("Closed") ELSE NoSub]
observe_shared_closed(c) == callEvts' = [callEvts EXCEPT ![c] = Sub("Closed")]

\* close_code up to its suspension at evts.next().await.
close_code(c, code) ==
    /\ CanCall(c)
    /\ IF ReturnsNotOpen(ready_state)
       THEN /\ call' = [call EXCEPT ![c] = Returned(c, "close_code", code, 0, "ConnectionNotOpen")]
            /\ UNCHANGED <<rawState, closeLog, pending, nlog, callEvts>>
       ELSE IF SkipsRequest(ready_state)
       THEN /\ observe_shared_closed(c)
            /\ call' = [call EXCEPT ![c] = Started(c, "close_code", code, 0)]
            /\ UNCHANGED <<rawState, closeLog, pending, nlog>>
       ELSE /\ ws_close("call", c, code, 0)
            /\ IF NotifiesClosing(CloseAccepted(code, 0))
               THEN notify(Closing)
               ELSE UNCHANGED <<pending, nlog>>
            /\ IF CloseAccepted(code, 0)
               THEN /\ observe_shared_closed(c)
                    /\ call' = [call EXCEPT ![c] = Started(c, "close_code", code, 0)]
               ELSE /\ call' = [call EXCEPT ![c] = Returned(c, "close_code", code, 0, "InvalidCloseCode")]
                    /\ UNCHANGED callEvts
    /\ UNCHANGED <<onopen, onclose, onerror, tlog, reported>>
    /\ UNCHANGED <<blog, evts, obsEvts, received, obsLate>>
    /\ UNCHANGED <<cpc, cres, guard, handle, stream>>

\* close_reason up to its suspension at evts.next().await.
close_reason(c, code, rlen) ==
    /\ CanCall(c)
    /\ IF ReturnsNotOpen(ready_state)
       THEN /\ call' = [call EXCEPT ![c] = Returned(c, "close_reason", code, rlen, "ConnectionNotOpen")]
            /\ UNCHANGED <<rawState, closeLog, pending, nlog, callEvts>>
       ELSE IF SkipsRequest(ready_state)
       THEN /\ observe_shared_closed(c)
            /\ call' = [call EXCEPT ![c] = Started(c, "close_reason", code, rlen)]
            /\ UNCHANGED <<rawState, closeLog, pending, nlog>>
       ELSE IF ReasonTooLong(rlen)
       THEN /\ call' = [call EXCEPT ![c] = Returned(c, "close_reason", code, rlen, "ReasonStringToLong")]
            /\ UNCHANGED <<rawState, closeLog, pending, nlog, callEvts>>
       ELSE /\ ws_close("call", c, code, rlen)
            /\ IF NotifiesClosing(CloseAccepted(code, rlen))
               THEN notify(Closing)
               ELSE UNCHANGED <<pending, nlog>>
            /\ IF CloseAccepted(code, rlen)
               THEN /\ observe_shared_closed(c)
                    /\ call' = [call EXCEPT ![c] = Started(c, "close_reason", code, rlen)]
               ELSE /\ call' = [call EXCEPT ![c] = Returned(c, "close_reason", code, rlen, "InvalidCloseCode")]
                    /\ UNCHANGED callEvts
    /\ UNCHANGED <<onopen, onclose, onerror, tlog, reported>>
    /\ UNCHANGED <<blog, evts, obsEvts, received, obsLate>>
    /\ UNCHANGED <<cpc, cres, guard, handle, stream>>

\* A close call resumes with the Closed event of its subscription.
close_resume(c) ==
    /\ call[c].pc = "waiting"
    /\ callEvts[c].queue # <<>>
    /\ LET ce == Head(callEvts[c].queue) IN
       call' = [call EXCEPT ![c].pc = "done",
                            ![c].res = Result("Ok", ce.info, 0, "", ready_state)]
    /\ callEvts' = [callEvts EXCEPT ![c] = NoSub]
    /\ UNCHANGED <<transportVars, pending, nlog, blog, evts, obsEvts, received, obsLate>>
    /\ UNCHANGED <<cpc, cres, guard, handle, stream>>

\* ------------------------------------------------------------ observers
\* No close call is suspended: observe takes the handle by exclusive
\* reference, a pending close call holds a shared one.
Unborrowed == \A c \in Calls : call[c].pc # "waiting"

ClosedBroadcast == \E i \in DOMAIN blog : is_closed(blog[i])

\* Observable::observe on the handle.
observe(o, filter) ==
    /\ handle = "alive"
    /\ Unborrowed
    /\ ~obsEvts[o].active
    /\ received[o] = <<>>
    /\ \A p \in Observers : p < o => obsEvts[p].active
    /\ obsEvts' = [obsEvts EXCEPT ![o] = Sub(filter)]
    /\ obsLate' = [obsLate EXCEPT ![o] = ClosedBroadcast]
    /\ UNCHANGED <<transportVars, pending, nlog, blog, evts, callEvts, received, taskVars>>

\* An observer takes the next event from its stream.
observer_next(o) ==
    /\ obsEvts[o].queue # <<>>
    /\ received' = [received EXCEPT ![o] = Append(@, Head(obsEvts[o].queue))]
    /\ obsEvts' = [obsEvts EXCEPT ![o].queue = Tail(@)]
    /\ UNCHANGED <<transportVars, pending, nlog, blog, evts, callEvts, obsLate, taskVars>>

\* ---------------------------------------------------------------- drops
drop_handle_Closes ==
    /\ handle = "alive"
    /\ Unborrowed
    /\ handle' = "dropped"
    /\ IF ready_state \in {"Closing", "Closed"}
       THEN UNCHANGED <<rawState, closeLog>>
       ELSE ws_close("handle", 0, 1000, 0)
    /\ UNCHANGED <<onopen, onclose, onerror, tlog, reported>>
    /\ UNCHANGED <<hubVars, cpc, cres, guard, stream, call>>

\* The handle is dropped: nothing is done to the transport.
drop_handle ==
    /\ handle = "alive"
    /\ Unborrowed
    /\ handle' = "dropped"
    /\ UNCHANGED <<transportVars, hubVars, cpc, cres, guard, stream, call>>

\* The stream is dropped: it unregisters the callbacks and closes the
\* transport.
drop_stream ==
    /\ stream = "alive"
    /\ stream' = "dropped"
    /\ onopen' = FALSE
    /\ onclose' = FALSE
    /\ onerror' = FALSE
    /\ IF ready_state \in {"Closing", "Closed"}
       THEN UNCHANGED <<rawState, closeLog>>
       ELSE ws_close("stream", 0, 1000, 0)
    /\ UNCHANGED <<tlog, reported, hubVars, cpc, cres, guard, handle, call>>

\* ------------------------------------------------------- specification
Next ==
    \/ \E url \in Urls, created \in BOOLEAN, exc \in ExcCodes : connect(url, created, exc)
    \/ connect_observed
    \/ connect_resume
    \/ connect_cancel
    \/ \E c \in Calls, code \in Codes : close_code(c, code)
    \/ \E c \in Calls, code \in Codes, rlen \in ReasonLens : close_reason(c, code, rlen)
    \/ \E c \in Calls : close_resume(c)
    \/ \E o \in Observers, filter \in {"Closed", "All"} : observe(o, filter)
    \/ \E o \in Observers : observer_next(o)
    \/ drop_handle
    \/ drop_stream
    \/ fire_open
    \/ fire_error
    \/ begin_closing
    \/ \E js \in JsCloseEvts : fire_close(js)
    \/ hub_broadcast

Spec == Init /\ [][Next]_vars
\* The tasks the executor runs once they are runnable, and the transport's
\* completion of closure.
Fairness ==
    /\ WF_vars(hub_broadcast)
    /\ WF_vars(connect_observed)
    /\ WF_vars(connect_resume)
    /\ \A c \in Calls : WF_vars(close_resume(c))
    /\ WF_vars(\E js \in JsCloseEvts : fire_close(js))

FairSpec == Spec /\ Fairness

\* ---------------------------------------------------------------- claims
Fired(what) == \E i \in DOMAIN tlog : tlog[i] = what
\* The CloseEvent carries exactly what the close notification reported.
AsReported(ce) ==
    /\ Fired("close")
    /\ ce.code = reported.code
    /\ ce.reason = reported.reason
    /\ ce.was_clean = reported.wasClean
GuardRequests == {i \in DOMAIN closeLog : closeLog[i].by = "guard"}
CallRequests(c) == {i \in DOMAIN closeLog : closeLog[i].by = "call" /\ closeLog[i].idx = c}
Unregistered == ~onopen /\ ~onclose /\ ~onerror

\* C1: once the transport was created, connect resolves only to Ok, with the
\* transport's ready state Open at the moment of resolution, or to
\* ConnectionFailed carrying exactly the code, reason and was_clean of the
\* transport's close notification.
C1_ConnectOutcome ==
    /\ Created => cpc \in {"observing", "waiting", "cancelled", "ok", "failed"}
    /\ cpc = "ok" => cres.kind = "Ok" /\ cres.state = "Open"
    /\ cpc = "failed" => cres.kind = "ConnectionFailed" /\ AsReported(cres.event)

C1_Witness == cpc = "ok" /\ cres.kind = "Ok" /\ cres.state = "Open" /\ Fired("error")

\* C2: when the transport fired close and never fired open, connect has not
\* resolved to Ok, and if it resolved, it resolved to ConnectionFailed with
\* the code, reason and was_clean of that close notification.
C2_CloseBeforeOpen ==
    (Fired("close") /\ ~Fired("open")) =>
        /\ cpc # "ok"
        /\ cres.kind # "Ok"
        /\ cpc \in {"ok", "failed"} =>
              /\ cres.kind = "ConnectionFailed"
              /\ AsReported(cres.event)

C2_Witness ==
    /\ cpc = "failed"
    /\ ~Fired("open")
    /\ cres.kind = "ConnectionFailed"
    /\ cres.event.was_clean
    /\ cres.event.code = 1000

\* C3: once the connect future was dropped at its await, the guard has run:
\* the three callbacks are unregistered, a close request was issued by the
\* guard exactly when the transport was Open at that moment, and from then
\* on no transport firing hands an event to the hub.
C3_CancelInv ==
    cpc = "cancelled" =>
        /\ guard = "dropped"
        /\ Unregistered
        /\ evts = NoSub
        /\ (cres.state = "Open") <=> (GuardRequests # {})
        /\ \A i \in GuardRequests : closeLog[i].ok

C3_CancelCleansUp ==
    /\ []C3_CancelInv
    /\ [][cpc = "cancelled" => nlog' = nlog]_vars

C3_Witness ==
    /\ cpc = "cancelled"
    /\ cres.state = "Open"
    /\ GuardRequests # {}
    /\ Fired("close")
    /\ \A i \in DOMAIN nlog : ~is_closed(nlog[i])

\* C4: after the connect future was dropped, the transport is never Open
\* with its callbacks unregistered and no close request issued on it.
C4_NoLeakedOpenSocket ==
    cpc = "cancelled" => ~(ready_state = "Open" /\ Unregistered /\ closeLog = <<>>)

\* C5: two close_code calls in flight together on a connection that was
\* Open: one close request reaches the transport, and when both have
\* resolved both are Ok with the same CloseEvent, the one the transport
\* reported.
TwoConcurrentCloses ==
    /\ call[1].op = "close_code"
    /\ call[2].op = "close_code"
    /\ call[1].at = "Open"
    /\ call[1].res.kind \in {"Pending", "Ok"}
    /\ call[2].at = "Closing"

C5_ConcurrentClose ==
    TwoConcurrentCloses =>
        /\ Len(closeLog) = 1
        /\ Cardinality(CallRequests(1)) = 1
        /\ CallRequests(2) = {}
        /\ call[2].res.kind \in {"Pending", "Ok"}
        /\ (call[1].pc = "done" /\ call[2].pc = "done") =>
              /\ call[1].res.kind = "Ok"
              /\ call[2].res.kind = "Ok"
              /\ call[1].res.event = call[2].res.event
              /\ AsReported(call[1].res.event)

C5_Witness ==
    /\ TwoConcurrentCloses
    /\ call[1].pc = "done"
    /\ call[2].pc = "done"
    /\ call[1].res.kind = "Ok"
    /\ call[2].res.kind = "Ok"
MissedClose == Fired("close") /\ \A i \in DOMAIN nlog : ~is_closed(nlog[i])

C6_SubscribedInTime ==
    \A c \in Calls :
        /\ (call[c].pc = "waiting" /\ ClosedBroadcast) => callEvts[c].queue # <<>>
        /\ call[c].pc = "waiting" => callEvts[c].active /\ callEvts[c].filter = "Closed"
        /\ call[c].res.kind = "Ok" => AsReported(call[c].res.event)

Closeds(seq) == Cardinality({i \in DOMAIN seq : is_closed(seq[i])})
\* Everything an observer's subscription was given: taken or still queued.
Got(o) == received[o] \o obsEvts[o].queue

\* C7 (as claimed): an observer with the filter "is Closed" registered after
\* the Closed event was broadcast has received that event exactly once, once
\* the hub has nothing left to deliver.
C7_LateObserverGetsClosed ==
    \A o \in Observers :
        (/\ obsEvts[o].active
         /\ obsEvts[o].filter = "Closed"
         /\ obsLate[o]
         /\ pending = <<>>
         /\ obsEvts[o].queue = <<>>) => Closeds(received[o]) = 1

\* C7 (amended): the hub does not replay.  An observer registered after the
\* Closed event was broadcast is never given it; an observer registered
\* before that broadcast is given it exactly once.
C7_NoReplay ==
    \A o \in Observers :
        obsEvts[o].active =>
            IF obsLate[o]
            THEN Closeds(Got(o)) = 0
            ELSE Closeds(Got(o)) = (IF ClosedBroadcast THEN 1 ELSE 0)

C7_Witness ==
    /\ obsEvts[1].active
    /\ obsEvts[1].filter = "Closed"
    /\ obsLate[1]
    /\ pending = <<>>
    /\ Got(1) = <<>>

\* C8: a close call that finds the transport Closed returns
\* ConnectionNotOpen at once: the transport's close operation is not
\* invoked, nothing is handed to the hub, nothing is subscribed.
C8_ClosedInv ==
    \A c \in Calls :
        call[c].at = "Closed" =>
            /\ call[c].pc = "done"
            /\ call[c].res.kind = "ConnectionNotOpen"
            /\ CallRequests(c) = {}
            /\ callEvts[c] = NoSub

C8_CloseOnClosed ==
    /\ []C8_ClosedInv
    /\ [][\A c \in Calls :
            (call[c].pc = "idle" /\ call'[c].pc # "idle" /\ ready_state = "Closed") =>
                /\ call'[c].res.kind = "ConnectionNotOpen"
                /\ closeLog' = closeLog
                /\ nlog' = nlog
                /\ pending' = pending
                /\ callEvts' = callEvts]_vars

C8_Witness ==
    /\ call[1].at = "Closed"
    /\ call[1].op = "close_code"
    /\ call[1].res.kind = "ConnectionNotOpen"
    /\ call[2].at = "Closed"
    /\ call[2].op = "close_reason"
    /\ call[2].res.kind = "ConnectionNotOpen"

TooLong(c) == call[c].op = "close_reason" /\ call[c].rlen > 123

\* C9 (as claimed): close_reason with a reason longer than 123 bytes returns
\* ReasonStringToLong without invoking the transport, whatever the state.
C9_TooLongAlwaysRejected ==
    \A c \in Calls :
        TooLong(c) =>
            /\ call[c].pc = "done"
            /\ call[c].res.kind = "ReasonStringToLong"
            /\ CallRequests(c) = {}

\* C9 (amended): close_reason with a reason longer than 123 bytes never
\* invokes the transport's close operation; it returns ReasonStringToLong
\* when the transport is Connecting or Open, ConnectionNotOpen when it is
\* Closed, and when it is Closing it goes on to await the Closed event.
C9_TooLongNeverReachesTransport ==
    \A c \in Calls :
        TooLong(c) =>
            /\ CallRequests(c) = {}
            /\ call[c].at \in {"Connecting", "Open"} =>
                  call[c].pc = "done" /\ call[c].res.kind = "ReasonStringToLong"
            /\ call[c].at = "Closed" =>
                  call[c].pc = "done" /\ call[c].res.kind = "ConnectionNotOpen"
            /\ call[c].at = "Closing" => call[c].res.kind \in {"Pending", "Ok"}

C9_Witness ==
    /\ TooLong(1)
    /\ call[1].at = "Open"
    /\ call[1].res.kind = "ReasonStringToLong"
    /\ closeLog = <<>>

\* C10: a close call whose request the transport rejects returns
\* InvalidCloseCode with the code supplied, hands nothing to the hub,
\* subscribes nothing and leaves the transport's state as it was.
C10_RejectedInv ==
    \A c \in Calls :
        call[c].res.kind = "InvalidCloseCode" =>
            /\ call[c].pc = "done"
            /\ call[c].res.supplied = call[c].code
            /\ ~ValidCloseCode(call[c].code)
            /\ call[c].res.state = call[c].at
            /\ callEvts[c] = NoSub
            /\ \A i \in CallRequests(c) : ~closeLog[i].ok

C10_RejectedClose ==
    /\ []C10_RejectedInv
    /\ [][\A c \in Calls :
            (call[c].pc = "idle" /\ call'[c].res.kind = "InvalidCloseCode") =>
                /\ nlog' = nlog
                /\ pending' = pending
                /\ rawState' = rawState
                /\ callEvts' = callEvts]_vars

C10_Witness ==
    /\ call[1].res.kind = "InvalidCloseCode"
    /\ call[1].res.supplied = 2000
    /\ call[2].at = "Open"
    /\ \E i \in CallRequests(2) : closeLog[i].ok
    /\ call[2].res.kind = "Ok"

\* ------------------------------------------------------------- C11
\* C11: when the transport refuses to create the socket, connect fails in its
\* first step, before any await: with InvalidUrl carrying the URL it was
\* given when the refusal is a syntax error; no callback is registered, no
\* hub subscription exists, no guard is armed, nothing reaches the hub or the
\* transport.
C11_RejectedInv ==
    cpc = "rejected" =>
        /\ cres.kind = "InvalidUrl" <=> cres.supplied = SYNTAX_ERR
        /\ cres.kind = "InvalidUrl" => cres.url \in Urls
        /\ Unregistered
        /\ evts = NoSub
        /\ guard = "none"
        /\ handle = "none" /\ stream = "none"
        /\ nlog = <<>> /\ tlog = <<>> /\ closeLog = <<>>
C11_RejectedAtOnce ==
    /\ []C11_RejectedInv
    /\ [][cpc' = "rejected" => cpc \in {"idle", "rejected"}]_vars
    /\ [][\A u \in Urls : (cpc = "idle" /\ connect(u, FALSE, SYNTAX_ERR)) => cres'.url = u]_vars

C11_Witness ==
    cpc = "rejected" /\ cres.kind = "InvalidUrl" /\ cres.url = "ftp://host/"

\* ------------------------------------------------------------- C12
\* C12: dropping the handle changes nothing in the transport or the hub: no
\* close request, the ready state as it was, the three callbacks still
\* registered. Once the handle is gone, the only step that sends a close
\* request is the drop of the stream.
C12_DropStep ==
    (handle = "alive" /\ handle' = "dropped") =>
        /\ UNCHANGED transportVars
        /\ UNCHANGED hubVars
        /\ stream' = stream
C12_OnlyStreamCloses ==
    (handle = "dropped" /\ closeLog' # closeLog) =>
        /\ stream = "alive" /\ stream' = "dropped"
        /\ closeLog'[Len(closeLog')].by = "stream"
C12_CallbacksStay == (handle = "dropped" /\ stream = "alive") => (onopen /\ onclose /\ onerror)
C12_HandleDropInert ==
    /\ [][C12_DropStep]_vars
    /\ [][C12_OnlyStreamCloses]_vars
    /\ []C12_CallbacksStay

C12_Witness ==
    /\ handle = "dropped" /\ stream = "alive"
    /\ ready_state = "Open"
    /\ onopen /\ onclose /\ onerror
    /\ closeLog = <<>>

\* ------------------------------------------------------------- C13
\* C13: whenever connect is suspended, at the hub subscription or at the wait
\* for the first Open-or-Closed event, the three callbacks are registered and
\* the guard is armed; the guard is disarmed only in the step that leaves the
\* last suspension with Ok.
C13_SuspendedInv ==
    /\ cpc \in {"observing", "waiting"} =>
           onopen /\ onclose /\ onerror /\ guard = "armed"
    /\ cpc = "observing" => ~evts.active
    /\ cpc = "waiting" => evts.active /\ evts.filter = "OpenClose"
    /\ guard = "forgotten" => cpc = "ok"
C13_GuardArmedWhileSuspended ==
    /\ []C13_SuspendedInv
    /\ [][(guard # "forgotten" /\ guard' = "forgotten") =>
              (cpc = "waiting" /\ cpc' = "ok" /\ guard = "armed")]_vars

C13_Witness ==
    /\ cpc = "waiting"
    /\ Fired("error")
    /\ pending = <<>>
    /\ onopen /\ onclose /\ onerror /\ guard = "armed"

\* ------------------------------------------------------------- C14
\* C14: cleanup has one owner and runs at most once. When connect resolves
\* Ok the guard was forgotten, not dropped: the callbacks are registered at
\* that moment, connect sent no close request, and the guard never acts
\* afterwards; from then on only the stream's drop unregisters. On any
\* connect attempt the guard is dropped at most once and sends at most one
\* close request.
C14_OwnerInv ==
    /\ cpc = "ok" <=> guard = "forgotten"
    /\ cpc \in {"failed", "cancelled"} <=> guard = "dropped"
    /\ guard = "forgotten" => GuardRequests = {}
    /\ guard = "forgotten" /\ stream = "alive" => onopen /\ onclose /\ onerror
    /\ Cardinality(GuardRequests) <= 1
C14_ResolveOkStep ==
    (cpc = "waiting" /\ cpc' = "ok") =>
        /\ onopen' /\ onclose' /\ onerror'
        /\ closeLog' = closeLog
        /\ stream' = "alive"
C14_GuardActsOnce ==
    /\ guard \in {"forgotten", "dropped"} => guard' = guard /\ GuardRequests' = GuardRequests
    /\ (onclose /\ ~onclose') =>
           \/ guard = "armed" /\ guard' = "dropped"
           \/ guard = "forgotten" /\ stream = "alive" /\ stream' = "dropped"
C14_SingleCleanupOwner ==
    /\ []C14_OwnerInv
    /\ [][C14_ResolveOkStep]_vars
    /\ [][C14_GuardActsOnce]_vars

C14_Witness ==
    /\ cpc = "ok" /\ guard = "forgotten"
    /\ stream = "dropped"
    /\ Unregistered
    /\ GuardRequests = {}
    /\ \E i \in DOMAIN closeLog : closeLog[i].by = "stream"

\* ------------------------------------------------------------- C15
AcceptedCallRequests == {i \in DOMAIN closeLog : closeLog[i].by = "call" /\ closeLog[i].ok}
ClosingNotified == {i \in DOMAIN nlog : nlog[i] = Closing}
StartsAtClosing(c) == call[c].pc = "idle" /\ call'[c].pc # "idle" /\ ready_state = "Closing"

\* C15: a close_code or close_reason call made while the ready state is
\* Closing sends no close request and hands no Closing event to the hub; it
\* subscribes and waits for Closed. Over all the close calls of a connection
\* the transport accepts at most one close request and at most one Closing
\* event is broadcast.
C15_ClosingInv ==
    /\ \A c \in Calls :
           call[c].at = "Closing" /\ call[c].pc # "idle" =>
               /\ CallRequests(c) = {}
               /\ call[c].res.kind \in {"Pending", "Ok"}
               /\ call[c].pc = "waiting" => callEvts[c].active /\ callEvts[c].filter = "Closed"
    /\ Cardinality(AcceptedCallRequests) <= 1
    /\ Cardinality(ClosingNotified) <= 1
    /\ Cardinality(ClosingNotified) = Cardinality(AcceptedCallRequests)
C15_ClosingStep ==
    \A c \in Calls :
        StartsAtClosing(c) =>
            /\ closeLog' = closeLog
            /\ nlog' = nlog
            /\ rawState' = rawState
            /\ call'[c].pc = "waiting"
C15_CloseWhileClosing ==
    /\ []C15_ClosingInv
    /\ [][C15_ClosingStep]_vars

C15_Witness ==
    /\ call[1].at = "Open"
    /\ Cardinality(CallRequests(1)) = 1
    /\ call[2].op = "close_reason"
    /\ call[2].at = "Closing"
    /\ call[2].rlen = 124
    /\ call[2].res.kind = "Ok"
    /\ Cardinality(ClosingNotified) = 1

\* ------------------------------------------------------------- C16
\* The events of seq that a filter accepts, in the order of seq.
Matching(filter, seq) == SelectSeq(seq, LAMBDA e : Accepts(filter, e))
\* seq is what a subscription with this filter is given from some point of
\* the broadcast sequence onwards: nothing left out, moved or merged.
GivenInOrder(filter, seq) ==
    \E k \in 0..Len(blog) : seq = Matching(filter, SubSeq(blog, k + 1, Len(blog)))
\* Open before Closing before Closed, each at most once.
Rank(evt) ==
    CASE is_open(evt) -> 1
      [] evt = Closing -> 2
      [] is_closed(evt) -> 3
      [] OTHER -> 0
LifecycleOrdered(seq) ==
    \A i, j \in DOMAIN seq :
        (i < j /\ Rank(seq[i]) > 0 /\ Rank(seq[j]) > 0) => Rank(seq[i]) < Rank(seq[j])

\* C16: the hub broadcasts events in the order they were handed to it, and
\* every subscription is given exactly the broadcast events its filter
\* accepts from its registration on, in that order. Hence no subscriber sees
\* Closed before Closing, or Closing or Closed before Open.
C16_InOrder ==
    /\ nlog = blog \o pending
    /\ LifecycleOrdered(nlog)
    /\ \A o \in Observers :
           obsEvts[o].active =>
               /\ GivenInOrder(obsEvts[o].filter, Got(o))
               /\ LifecycleOrdered(Got(o))
    /\ evts.active => GivenInOrder(evts.filter, evts.queue)
    /\ \A c \in Calls :
           (callEvts[c].active /\ call[c].pc = "waiting") =>
               GivenInOrder(callEvts[c].filter, callEvts[c].queue)

C16_Witness ==
    \E o \in Observers :
        /\ obsEvts[o].filter = "All"
        /\ call[1].op = "close_code"
        /\ Fired("open")
        /\ Len(received[o]) >= 2
        /\ received[o][Len(received[o]) - 1] = Closing
        /\ is_closed(received[o][Len(received[o])])

\* ------------------------------------------------------------- C17
\* What a broadcast of evt does to one subscription.
Delivered(before, after, evt) ==
    IF before.active /\ Accepts(before.filter, evt)
    THEN after = [before EXCEPT !.queue = Append(@, evt)]
    ELSE after = before
\* C17: a broadcast hands the event to every subscription registered at that
\* moment whose filter accepts it, and to no other; a subscriber taking an
\* event, or a new subscriber registering, leaves every other subscription
\* as it was; a close call that is waiting still holds its subscription.
C17_BroadcastStep ==
    blog' # blog =>
        LET evt == blog'[Len(blog')] IN
        /\ Delivered(evts, evts', evt)
        /\ \A c \in Calls : Delivered(callEvts[c], callEvts'[c], evt)
        /\ \A o \in Observers : Delivered(obsEvts[o], obsEvts'[o], evt)
C17_OthersUntouched ==
    blog' = blog =>
        /\ \A c, d \in Calls :
               (c # d /\ callEvts'[c] # callEvts[c]) => callEvts'[d] = callEvts[d]
        /\ \A c \in Calls :
               callEvts'[c] # callEvts[c] => obsEvts' = obsEvts /\ received' = received
        /\ \A o \in Observers :
               obsEvts'[o] # obsEvts[o] => callEvts' = callEvts /\ evts' = evts
C17_WaitingSubscribed == \A c \in Calls : call[c].pc = "waiting" => callEvts[c].active
C17_FanOut ==
    /\ [][C17_BroadcastStep]_vars
    /\ [][C17_OthersUntouched]_vars
    /\ []C17_WaitingSubscribed

C17_Witness ==
    /\ call[1].pc = "done" /\ call[1].res.kind = "Ok"
    /\ call[2].pc = "waiting" /\ Len(callEvts[2].queue) = 1
    /\ is_closed(callEvts[2].queue[1])
    /\ \E o \in Observers : obsEvts[o].active /\ Closeds(Got(o)) = 1

\* ------------------------------------------------------------- C18
OpenOrClosed(seq) == {i \in DOMAIN seq : is_open(seq[i]) \/ is_closed(seq[i])}
OpenCloseFirings == {i \in DOMAIN tlog : tlog[i] \in {"open", "close"}}

\* C18: the transport fires nothing before connect's subscription is
\* registered, and while connect waits every open or close notification the
\* transport fired is on its way to connect: queued in the hub or in
\* connect's subscription. So a connect that is not dropped resolves once
\* the transport fires open or close.
C18_NothingMissed ==
    /\ cpc = "observing" => tlog = <<>>
    /\ cpc = "waiting" =>
           Cardinality(OpenCloseFirings) =
               Cardinality(OpenOrClosed(pending)) + Cardinality(OpenOrClosed(evts.queue))
C19_OutcomeInv ==
    /\ \A i \in DOMAIN evts.queue : evts.queue[i] # Error
    /\ cpc = "ok" => Fired("open")
    /\ cpc = "failed" => Fired("close") /\ ~Fired("open")
    /\ (~Fired("open") /\ ~Fired("close")) => cpc \notin {"ok", "failed"}
C19_ErrorStep ==
    (tlog' = Append(tlog, "error") \/ blog' = Append(blog, Error)) =>
        /\ cpc' = cpc
        /\ cres' = cres
        /\ evts' = evts
        /\ guard' = guard
C19_ResolveStep ==
    (cpc = "waiting" /\ cpc' \in {"ok", "failed"}) =>
        /\ evts.queue # <<>>
        /\ cpc' = "ok" <=> is_open(Head(evts.queue))
        /\ cpc' = "failed" <=> is_closed(Head(evts.queue))
C19_ErrorIgnored ==
    /\ []C19_OutcomeInv
    /\ [][C19_ErrorStep]_vars
    /\ [][C19_ResolveStep]_vars

C19_Witness ==
    /\ cpc = "waiting"
    /\ blog = <<Error>>
    /\ pending = <<>>
    /\ evts.queue = <<>>
    /\ guard = "armed"

\* ------------------------------------------------------------- C20
\* C20: when connect has returned ConnectionFailed the guard was dropped on
\* that return: the three callbacks are unregistered, and no close request
\* was sent, the transport being Closed when the guard read its state.
C20_FailedInv ==
    cpc = "failed" =>
        /\ guard = "dropped"
        /\ Unregistered
        /\ closeLog = <<>>
        /\ cres.state = "Closed"
        /\ ready_state = "Closed"
        /\ handle = "none" /\ stream = "none"
C20_FailStep ==
    (cpc = "waiting" /\ cpc' = "failed") =>
        /\ onopen /\ onclose /\ onerror
        /\ ~onopen' /\ ~onclose' /\ ~onerror'
        /\ guard = "armed" /\ guard' = "dropped"
        /\ closeLog' = closeLog
        /\ rawState' = rawState
C20_FailedCleansUp ==
    /\ []C20_FailedInv
    /\ [][C20_FailStep]_vars

C20_Witness ==
    /\ cpc = "failed"
    /\ cres.kind = "ConnectionFailed"
    /\ ~cres.event.was_clean
    /\ Fired("error")
    /\ Unregistered
    /\ closeLog = <<>>

====
